---- MODULE Spec2Model ----
(***************************************************************************)
(* Model of the drop-and-top-up backtest of src/main.py:                   *)
(*   run_backtest_simulation  (one accumulation run over a price series)   *)
(*   find_optimal_drop_percentage (grid search with random start dates)    *)
(* Money, prices and returns are Python floats in the source; the model    *)
(* computes them as exact rationals [n, d] in lowest terms.  Dates are day *)
(* numbers, closes are positive integers, drop percentages are k/100.      *)
(***************************************************************************)
EXTENDS Integers, Sequences, FiniteSets

VARIABLES df, start_date, drop_percentage, sim, search, main

vars == <<df, start_date, drop_percentage, sim, search, main>>

----------------------------------------------------------------------------
(* Exact rational arithmetic standing for the float arithmetic of the code *)

Abs(x) == IF x < 0 THEN -x ELSE x

RECURSIVE GCD(_, _)
GCD(a, b) == IF b = 0 THEN a ELSE GCD(b, a % b)

Rat(n, d) ==
    LET g == GCD(Abs(n), Abs(d))
        s == IF d < 0 THEN -1 ELSE 1
    IN  [n |-> s * (n \div g), d |-> s * (d \div g)]

RInt(k) == [n |-> k, d |-> 1]

RAdd(a, b) ==
    LET g == GCD(a.d, b.d)
    IN  Rat(a.n * (b.d \div g) + b.n * (a.d \div g), (a.d \div g) * b.d)

RNeg(a) == [n |-> -a.n, d |-> a.d]

RSub(a, b) == RAdd(a, RNeg(b))

RMul(a, b) ==
    LET g1 == GCD(Abs(a.n), b.d)
        g2 == GCD(Abs(b.n), a.d)
    IN  Rat((a.n \div g1) * (b.n \div g2), (a.d \div g2) * (b.d \div g1))

RInv(a) == IF a.n < 0 THEN [n |-> -a.d, d |-> -a.n] ELSE [n |-> a.d, d |-> a.n]

RDiv(a, b) == RMul(a, RInv(b))

RLess(a, b) ==
    LET g == GCD(a.d, b.d)
    IN  a.n * (b.d \div g) < b.n * (a.d \div g)

RGeq(a, b) == ~RLess(a, b)

----------------------------------------------------------------------------
(* Configuration, src/config.py *)

TOTAL_CAPITAL == 200000
INITIAL_INVESTMENT == 50000
NUM_TOP_UPS == 3
MAX_HOLDING_YEARS == 1
TARGET_ANNUALIZED_RETURN == Rat(10, 100)

(* len(trading_days) < 20 in run_backtest_simulation *)
MinTradingDays == 20
(* df.index[:-20] in find_optimal_drop_percentage *)
PoolTail == 20

----------------------------------------------------------------------------
(* Bounds of the explored inputs *)

MaxLen == 22          \* longest generated series
BacktestRuns == 2     \* samples per threshold explored (config.BACKTEST_RUNS)
GridSize == 2         \* thresholds 1% .. GridSize% explored (np.arange grid)

Shapes == {"flat", "fall", "rise", "dip", "gap", "gaprise", "dup", "step"}

(* falling closes; every close divides a power of 30, which keeps the
   share counts INITIAL_INVESTMENT / close in small lowest terms *)
FallCloses ==
    <<100, 96, 90, 80, 75, 72, 64, 60, 54, 50, 48, 45,
      40, 36, 32, 30, 27, 25, 24, 20, 18, 16, 15, 12>>

(* closes that fall for eight days and then recover *)
DipCloses ==
    <<50, 48, 45, 40, 36, 32, 30, 27, 30, 32, 36, 40,
      45, 48, 50, 54, 60, 64, 72, 75, 80, 90, 96, 100>>

At(closes, i) == closes[IF i <= Len(closes) THEN i ELSE Len(closes)]

(* close of row i (1-based) of a generated series *)
Close(shape, i) ==
    CASE shape = "flat"    -> 50
      [] shape = "fall"    -> At(FallCloses, i)
      [] shape = "rise"    -> 49 + i
      [] shape = "dip"     -> At(DipCloses, i)
      [] shape = "gap"     -> 50
      [] shape = "gaprise" -> IF i <= 12 THEN 50 ELSE 60
      [] shape = "dup"     -> IF i <= 10 THEN 50 ELSE 48
      [] shape = "step"    -> IF i <= 10 THEN 50 ELSE 47

(* date (day number) of row i: ascending, as load_data sorts the index;
   "gap" and "gaprise" skip 400 days, "dup" repeats one date *)
DateOf(shape, i) ==
    CASE shape \in {"gap", "gaprise"} -> IF i <= 12 THEN i ELSE i + 400
      [] shape = "dup"                -> IF i <= 3 THEN i ELSE i - 1
      [] OTHER                        -> i

MkSeries(shape, len) ==
    [i \in 1 .. len |-> [date |-> DateOf(shape, i), close |-> Close(shape, i)]]

(* 25 daily closes from 100 falling by 1 a day to 80 on day 20, then flat *)
ScenarioSeries ==
    [i \in 1 .. 25 |->
        [date |-> i - 1, close |-> IF i <= 21 THEN 101 - i ELSE 80]]

SeriesSet ==
    {MkSeries(sh, len) : sh \in Shapes, len \in (MinTradingDays - 1) .. MaxLen}

StartDates(d) ==
    {d[j].date : j \in 1 .. Len(d)} \cup {d[1].date - 1, d[Len(d)].date + 1}

DropPercentages == {1, 5, 20, 99}

----------------------------------------------------------------------------
(* run_backtest_simulation, src/main.py:50-143 *)

(* a mutation: rows strictly after start_date *)
TradingDaysStrict(d, sd) == SelectSeq(d, LAMBDA r : r.date > sd)

(* trading_days = df[df.index >= start_date] *)
TradingDays(d, sd) == SelectSeq(d, LAMBDA r : r.date >= sd)

(* a mutation: 20 rows are rejected too *)
InsufficientDataOffByOne(td) == Len(td) <= MinTradingDays

(* if len(trading_days) < 20: return None *)
InsufficientData(td) == Len(td) < MinTradingDays

capital_to_invest == TOTAL_CAPITAL - INITIAL_INVESTMENT

top_up_amount == Rat(capital_to_invest, NUM_TOP_UPS)

(* the frame before the call: nothing computed yet *)
NoFrame ==
    [pc |-> "call", i |-> 0, shares |-> RInt(0), total_investment |-> RInt(0),
     avg_cost |-> RInt(0), top_ups_left |-> 0, history |-> <<>>,
     cumulative_return |-> RInt(0), annualized_return |-> RInt(0),
     holding_days |-> 0, exit_reason |-> "None", ret |-> "pending",
     end_date |-> 0]

(* lines 57-80: the initial investment and the first history record *)
InitialBuy(td) ==
    LET first_day_price == RInt(td[1].close)
        shares          == RDiv(RInt(INITIAL_INVESTMENT), first_day_price)
    IN  [pc |-> "loop", i |-> 1, shares |-> shares,
         total_investment |-> RInt(INITIAL_INVESTMENT),
         avg_cost |-> first_day_price, top_ups_left |-> NUM_TOP_UPS,
         history |-> << [date |-> td[1].date, action |-> "BUY",
                         price |-> first_day_price, shares_traded |-> shares,
                         total_shares |-> shares,
                         total_investment |-> RInt(INITIAL_INVESTMENT),
                         avg_cost |-> first_day_price,
                         cumulative_return |-> RInt(0),
                         annualized_return |-> RInt(0)] >>,
         cumulative_return |-> RInt(0), annualized_return |-> RInt(0),
         holding_days |-> 0, exit_reason |-> "None", ret |-> "pending",
         end_date |-> 0]

(* a mutation: the count of top-ups left is not consulted *)
TopUpDueUnlimited(s, current_price, perc) ==
    RLess(current_price, RMul(s.avg_cost, Rat(100 - perc, 100)))

(* a mutation: a close equal to the trigger level tops up as well *)
TopUpDueAtOrBelow(s, current_price, perc) ==
    /\ s.top_ups_left > 0
    /\ ~RLess(RMul(s.avg_cost, Rat(100 - perc, 100)), current_price)

(* line 88: top_ups_left > 0 and current_price < avg_cost * (1 - drop) *)
TopUpDue(s, current_price, perc) ==
    /\ s.top_ups_left > 0
    /\ RLess(current_price, RMul(s.avg_cost, Rat(100 - perc, 100)))

(* the TOP-UP record of lines 95-103; its return fields are set at 114-115 *)
TopUpEvent(current_date, current_price, shares_to_buy, shares, inv, avg) ==
    [date |-> current_date, action |-> "TOP-UP", price |-> current_price,
     shares_traded |-> shares_to_buy, total_shares |-> shares,
     total_investment |-> inv, avg_cost |-> avg,
     cumulative_return |-> RInt(0), annualized_return |-> RInt(0)]

(* a mutation: the counter is not decremented *)
TopUpNoDecrement(s, current_date, current_price) ==
    LET shares_to_buy == RDiv(top_up_amount, current_price)
        shares        == RAdd(s.shares, shares_to_buy)
        inv           == RAdd(s.total_investment, top_up_amount)
        avg           == RDiv(inv, shares)
    IN  [s EXCEPT !.shares = shares, !.total_investment = inv,
                  !.avg_cost = avg,
                  !.history = Append(@, TopUpEvent(current_date, current_price,
                                          shares_to_buy, shares, inv, avg))]

(* a mutation: avg_cost is recomputed before the investment is added *)
TopUpStaleAverage(s, current_date, current_price) ==
    LET shares_to_buy == RDiv(top_up_amount, current_price)
        shares        == RAdd(s.shares, shares_to_buy)
        inv           == RAdd(s.total_investment, top_up_amount)
        avg           == RDiv(s.total_investment, shares)
    IN  [s EXCEPT !.shares = shares, !.total_investment = inv,
                  !.avg_cost = avg, !.top_ups_left = @ - 1,
                  !.history = Append(@, TopUpEvent(current_date, current_price,
                                          shares_to_buy, shares, inv, avg))]

(* a mutation: the shares are bought at the average cost, not at the close *)
TopUpAtAverageCost(s, current_date, current_price) ==
    LET shares_to_buy == RDiv(top_up_amount, s.avg_cost)
        shares        == RAdd(s.shares, shares_to_buy)
        inv           == RAdd(s.total_investment, top_up_amount)
        avg           == RDiv(inv, shares)
    IN  [s EXCEPT !.shares = shares, !.total_investment = inv,
                  !.avg_cost = avg, !.top_ups_left = @ - 1,
                  !.history = Append(@, TopUpEvent(current_date, current_price,
                                          shares_to_buy, shares, inv, avg))]

(* lines 89-103: one top-up *)
TopUp(s, current_date, current_price) ==
    LET shares_to_buy == RDiv(top_up_amount, current_price)
        shares        == RAdd(s.shares, shares_to_buy)
        inv           == RAdd(s.total_investment, top_up_amount)
        avg           == RDiv(inv, shares)
    IN  [s EXCEPT !.shares = shares, !.total_investment = inv,
                  !.avg_cost = avg, !.top_ups_left = @ - 1,
                  !.history = Append(@, TopUpEvent(current_date, current_price,
                                          shares_to_buy, shares, inv, avg))]

(* the three exit tests of lines 119-123, each on its own *)
MaxHoldingReached(holding_days) == holding_days >= MAX_HOLDING_YEARS * 365

TargetReached(annualized_return) ==
    RGeq(annualized_return, TARGET_ANNUALIZED_RETURN)

CapitalExhaustedAtEnd(top_ups_left, last) == top_ups_left = 0 /\ last

(* a mutation: the target return is tested before the holding period *)
ExitReasonTargetFirst(holding_days, annualized_return, top_ups_left, last) ==
    IF TargetReached(annualized_return) THEN "target"
    ELSE IF MaxHoldingReached(holding_days) THEN "max_holding"
    ELSE IF CapitalExhaustedAtEnd(top_ups_left, last) THEN "exhausted"
    ELSE "None"

(* lines 118-124: if / elif / elif *)
ExitReason(holding_days, annualized_return, top_ups_left, last) ==
    IF MaxHoldingReached(holding_days) THEN "max_holding"
    ELSE IF TargetReached(annualized_return) THEN "target"
    ELSE IF CapitalExhaustedAtEnd(top_ups_left, last) THEN "exhausted"
    ELSE "None"

(* a mutation: the returns go into the first history record *)
ConcludeFirstRecord(t, current_date, cumulative_return, holding_days, annualized_return, exit_reason) ==
    LET u == [t EXCEPT
                 !.history[1].cumulative_return = cumulative_return,
                 !.history[1].annualized_return = annualized_return,
                 !.cumulative_return = cumulative_return,
                 !.annualized_return = annualized_return,
                 !.holding_days = holding_days,
                 !.exit_reason = exit_reason]
    IN  IF exit_reason # "None"
           THEN [u EXCEPT !.pc = "done", !.ret = "result",
                          !.end_date = current_date]
           ELSE [u EXCEPT !.i = @ + 1]

(* a mutation: the exit reason is noted but the loop goes on *)
ConcludeNoReturn(t, current_date, cumulative_return, holding_days, annualized_return, exit_reason) ==
    [t EXCEPT !.history[Len(t.history)].cumulative_return = cumulative_return,
              !.history[Len(t.history)].annualized_return = annualized_return,
              !.cumulative_return = cumulative_return,
              !.annualized_return = annualized_return,
              !.holding_days = holding_days,
              !.exit_reason = exit_reason,
              !.i = @ + 1]

(* lines 113-134: the returns go into the last history record, then the
   exit test either returns or goes on to the next day *)
Conclude(t, current_date, cumulative_return, holding_days, annualized_return, exit_reason) ==
    LET u == [t EXCEPT
                 !.history[Len(t.history)].cumulative_return = cumulative_return,
                 !.history[Len(t.history)].annualized_return = annualized_return,
                 !.cumulative_return = cumulative_return,
                 !.annualized_return = annualized_return,
                 !.holding_days = holding_days,
                 !.exit_reason = exit_reason]
    IN  IF exit_reason # "None"
           THEN [u EXCEPT !.pc = "done", !.ret = "result",
                          !.end_date = current_date]
           ELSE [u EXCEPT !.i = @ + 1]

(* lines 110-124: holding period, annualized return and exit test *)
Annualize(t, current_date, cumulative_return, holding_days, last) ==
    LET annualized_return ==
            IF holding_days > 0
               THEN RMul(cumulative_return, Rat(365, holding_days))
               ELSE RInt(0)
    IN  Conclude(t, current_date, cumulative_return, holding_days,
                 annualized_return,
                 ExitReason(holding_days, annualized_return,
                            t.top_ups_left, last))

(* lines 106-110: the value of the position after the top-up test *)
Valuation(t, current_date, current_price, last) ==
    LET current_value == RMul(t.shares, current_price)
    IN  Annualize(t, current_date,
                  RDiv(RSub(current_value, t.total_investment),
                       t.total_investment),
                  current_date - t.history[1].date + 1, last)

(* lines 84-134: one iteration of the loop, for day index s.i (0-based) *)
DayStep(s, td, perc) ==
    LET current_date  == td[s.i + 1].date
        current_price == RInt(td[s.i + 1].close)
    IN  Valuation(IF TopUpDue(s, current_price, perc)
                     THEN TopUp(s, current_date, current_price) ELSE s,
                  current_date, current_price, s.i = Len(td) - 1)

(* a mutation: the day count of the fallback leaves out the first day *)
FallbackExclusive(s, td) ==
    [s EXCEPT !.pc = "done", !.ret = "result",
              !.end_date = td[Len(td)].date,
              !.holding_days = td[Len(td)].date - s.history[1].date]

(* lines 137-143: the loop ran out of days without an exit *)
Fallback(s, td) ==
    [s EXCEPT !.pc = "done", !.ret = "result",
              !.end_date = td[Len(td)].date,
              !.holding_days = td[Len(td)].date - s.history[1].date + 1]

(* lines 53-55: the call, up to the first history record *)
Enter(d, sd) ==
    LET td == TradingDays(d, sd)
    IN  IF InsufficientData(td)
           THEN [NoFrame EXCEPT !.pc = "done", !.ret = "None"]
           ELSE InitialBuy(td)

RECURSIVE RunLoop(_, _, _)
(* the loop of lines 83-134 and the return of lines 137-143 *)
RunLoop(s, td, perc) ==
    IF s.pc = "done" THEN s
    ELSE IF s.i < Len(td) THEN RunLoop(DayStep(s, td, perc), td, perc)
    ELSE Fallback(s, td)

(* the whole call, as find_optimal_drop_percentage uses it *)
run_backtest_simulation(d, sd, perc) ==
    RunLoop(Enter(d, sd), TradingDays(d, sd), perc)

----------------------------------------------------------------------------
(* find_optimal_drop_percentage, src/main.py:145-178 *)

(* drop_percentages = np.arange(0.01, 0.21, 0.01), in percent, ascending *)
drop_percentages == [k \in 1 .. GridSize |-> k]

(* a mutation: every date of the series may be drawn *)
PossibleStartDatesAll(d) == [j \in 1 .. Len(d) |-> d[j].date]

(* possible_start_dates = df.index[:-20] *)
PossibleStartDates(d) ==
    [j \in 1 .. (IF Len(d) > PoolTail THEN Len(d) - PoolTail ELSE 0) |-> d[j].date]

RECURSIVE RSum(_)
RSum(xs) == IF xs = <<>> THEN RInt(0) ELSE RAdd(xs[1], RSum(Tail(xs)))

(* np.mean(annual_returns) *)
Mean(xs) == RDiv(RSum(xs), RInt(Len(xs)))

RECURSIVE MaxFromLast(_, _, _)
(* a mutation: a later result that equals the best so far replaces it *)
MaxFromLast(results, k, best) ==
    IF k > Len(results) THEN best
    ELSE MaxFromLast(results, k + 1,
            IF RLess(results[k].avg_annualized_return,
                     best.avg_annualized_return)
               THEN best ELSE results[k])

MaxLast(results) == MaxFromLast(results, 2, results[1])

RECURSIVE MaxFrom(_, _, _)
(* max(results, key=...): the first of the largest in list order *)
MaxFrom(results, k, best) ==
    IF k > Len(results) THEN best
    ELSE MaxFrom(results, k + 1,
            IF RLess(best.avg_annualized_return,
                     results[k].avg_annualized_return)
               THEN results[k] ELSE best)

Max(results) == MaxFrom(results, 2, results[1])

(* the frame of find_optimal_drop_percentage at its first line *)
SearchEntry ==
    [pc |-> "sample", k |-> 1, run |-> 0, start_date |-> 0,
     simulation_result |-> "None", annual_returns |-> <<>>,
     results |-> <<>>, out |-> "pending", optimal |-> 0]

(* lines 162-163: a result's final_annualized_return is collected *)
Collect(f, sd, r) ==
    [f EXCEPT !.run = @ + 1, !.start_date = sd,
              !.simulation_result = r.ret,
              !.annual_returns =
                  IF r.ret = "result" THEN Append(@, r.annualized_return) ELSE @,
              !.pc = IF f.run + 1 = BacktestRuns THEN "score" ELSE "sample"]

(* lines 160-163: one draw of random.choice and one simulation; choosing
   from an empty pool raises IndexError, which nothing catches *)
Sample(f, d, pool, j) ==
    IF Len(pool) = 0
       THEN [f EXCEPT !.pc = "done", !.out = "IndexError"]
       ELSE Collect(f, pool[j],
                    run_backtest_simulation(d, pool[j], drop_percentages[f.k]))

(* lines 165-168 and the step to the next perc *)
Score(f) ==
    [f EXCEPT !.results =
                  IF f.annual_returns # <<>>
                     THEN Append(@, [drop_percentage |-> drop_percentages[f.k],
                                     avg_annualized_return |-> Mean(f.annual_returns)])
                     ELSE @,
              !.annual_returns = <<>>, !.run = 0,
              !.k = @ + 1,
              !.pc = IF f.k = Len(drop_percentages) THEN "select" ELSE "sample"]

(* lines 170-178 *)
Select(f) ==
    IF f.results = <<>>
       THEN [f EXCEPT !.pc = "done", !.out = "None"]
       ELSE [f EXCEPT !.pc = "done", !.out = "threshold",
                      !.optimal = Max(f.results).drop_percentage]

----------------------------------------------------------------------------
(* The state machine of one simulation call *)

NoSearch == [pc |-> "idle"]

(* the script of lines 237-269 is not running *)
NoMain == [pc |-> "idle"]

SimInit ==
    /\ \/ /\ df \in SeriesSet
          /\ start_date \in StartDates(df)
          /\ drop_percentage \in DropPercentages
       \/ /\ df = ScenarioSeries
          /\ start_date \in {ScenarioSeries[1].date - 1, ScenarioSeries[1].date}
          /\ drop_percentage \in {5, 20}
    /\ sim = NoFrame
    /\ search = NoSearch
    /\ main = NoMain

SimCall ==
    /\ sim.pc = "call"
    /\ sim' = Enter(df, start_date)
    /\ UNCHANGED <<df, start_date, drop_percentage, search, main>>

SimDay ==
    /\ sim.pc = "loop"
    /\ sim.i < Len(TradingDays(df, start_date))
    /\ sim' = DayStep(sim, TradingDays(df, start_date), drop_percentage)
    /\ UNCHANGED <<df, start_date, drop_percentage, search, main>>

SimFallback ==
    /\ sim.pc = "loop"
    /\ sim.i >= Len(TradingDays(df, start_date))
    /\ sim' = Fallback(sim, TradingDays(df, start_date))
    /\ UNCHANGED <<df, start_date, drop_percentage, search, main>>

SimNext == SimCall \/ SimDay \/ SimFallback

Spec == SimInit /\ [][SimNext]_vars

----------------------------------------------------------------------------
(* The state machine of one parameter search *)

(* the series searched: flat ones give equal means, falling and dipping
   ones give means that differ by threshold and by start date *)
SearchSeriesSet ==
    {MkSeries(sh, len) : sh \in {"flat", "fall", "dip", "dup"},
                         len \in (MinTradingDays - 1) .. MaxLen}

SearchInit ==
    /\ df \in SearchSeriesSet
    /\ start_date = df[1].date
    /\ drop_percentage = drop_percentages[1]
    /\ sim = NoFrame
    /\ search = SearchEntry
    /\ main = NoMain

SearchSample ==
    /\ search.pc = "sample"
    /\ \E j \in 1 .. (IF Len(PossibleStartDates(df)) = 0
                         THEN 1 ELSE Len(PossibleStartDates(df))) :
          search' = Sample(search, df, PossibleStartDates(df), j)
    /\ UNCHANGED <<df, start_date, drop_percentage, sim, main>>

SearchScore ==
    /\ search.pc = "score"
    /\ search' = Score(search)
    /\ UNCHANGED <<df, start_date, drop_percentage, sim, main>>

SearchSelect ==
    /\ search.pc = "select"
    /\ search' = Select(search)
    /\ UNCHANGED <<df, start_date, drop_percentage, sim, main>>

SearchNext == SearchSample \/ SearchScore \/ SearchSelect

SearchSpec == SearchInit /\ [][SearchNext]_vars

----------------------------------------------------------------------------
(* The script, src/main.py:237-269: load, search, one simulation, plot *)

(* a series that spans more than two years and has ten rows in the last two *)
LongGapSeries(len) ==
    [i \in 1 .. len |->
        [date |-> IF i <= 12 THEN i ELSE i + 800, close |-> 50]]

(* what load_data can return as a frame: nothing left after the five-year
   filter, or a series sorted by date *)
LoadedSeriesSet ==
    {<<>>}
        \cup {MkSeries(sh, len) : sh \in {"flat", "dip"},
                                  len \in (MinTradingDays - 1) .. MaxLen}
        \cup {LongGapSeries(len) : len \in (MinTradingDays - 1) .. MaxLen}

(* lines 254-256: two years before the last date, not before the first *)
DisplayStartDate(d) ==
    IF d[Len(d)].date - 2 * 365 < d[1].date
       THEN d[1].date
       ELSE d[Len(d)].date - 2 * 365

(* line 243: etf_data is not None and not etf_data.empty *)
DataUsable(etf_data, d) == etf_data = "frame" /\ d # <<>>

(* a mutation: the simulation result is plotted without being tested *)
ShouldPlotUnchecked(final_simulation) == TRUE

(* line 260: if final_simulation *)
ShouldPlot(final_simulation) == final_simulation.ret = "result"

MainEntry ==
    [pc |-> "load", etf_data |-> "unset", search_out |-> "unset",
     optimal_percentage |-> 0, stages |-> <<>>, outcome |-> "running"]

Idle(f) == [f EXCEPT !.pc = "idle"]

MainInit ==
    /\ df = <<>>
    /\ start_date = 0
    /\ drop_percentage = 0
    /\ sim = Idle(NoFrame)
    /\ search = NoSearch
    /\ main = MainEntry

(* line 241: load_data returns None for a missing file, else a frame *)
MainLoad ==
    /\ main.pc = "load"
    /\ \/ /\ df' = <<>>
          /\ main' = [main EXCEPT !.pc = "loaded", !.etf_data = "None",
                                  !.stages = Append(@, "load_data")]
       \/ /\ df' \in LoadedSeriesSet
          /\ main' = [main EXCEPT !.pc = "loaded", !.etf_data = "frame",
                                  !.stages = Append(@, "load_data")]
    /\ UNCHANGED <<start_date, drop_percentage, sim, search>>

(* lines 243-245 and 268-269 *)
MainCheckData ==
    /\ main.pc = "loaded"
    /\ IF DataUsable(main.etf_data, df)
          THEN /\ search' = SearchEntry
               /\ main' = [main EXCEPT
                              !.pc = "search",
                              !.stages = Append(@, "find_optimal_drop_percentage")]
          ELSE /\ search' = search
               /\ main' = [main EXCEPT !.pc = "end", !.outcome = "data_error"]
    /\ UNCHANGED <<df, start_date, drop_percentage, sim>>

(* lines 245-258 and 266-267: the search has returned or raised *)
MainCheckOptimal ==
    /\ main.pc = "search"
    /\ search.pc = "done"
    /\ search' = NoSearch
    /\ IF search.out = "threshold"
          THEN /\ start_date' = DisplayStartDate(df)
               /\ drop_percentage' = search.optimal
               /\ sim' = NoFrame
               /\ main' = [main EXCEPT
                              !.pc = "simulate", !.search_out = search.out,
                              !.optimal_percentage = search.optimal,
                              !.stages = Append(@, "run_backtest_simulation")]
          ELSE /\ UNCHANGED <<start_date, drop_percentage, sim>>
               /\ main' = [main EXCEPT
                              !.pc = "end", !.search_out = search.out,
                              !.outcome = IF search.out = "None"
                                             THEN "search_error"
                                             ELSE search.out]
    /\ UNCHANGED df

(* lines 258-265: the display simulation has returned *)
MainCheckSimulation ==
    /\ main.pc = "simulate"
    /\ sim.pc = "done"
    /\ IF ShouldPlot(sim)
          THEN main' = [main EXCEPT
                           !.pc = "end", !.outcome = "plotted",
                           !.stages = Append(@, "plot_simulation_results")]
          ELSE main' = [main EXCEPT !.pc = "end", !.outcome = "simulation_error"]
    /\ UNCHANGED <<df, start_date, drop_percentage, sim, search>>

MainNext ==
    \/ MainLoad
    \/ MainCheckData
    \/ SearchSample
    \/ SearchScore
    \/ SearchSelect
    \/ MainCheckOptimal
    \/ SimCall
    \/ SimDay
    \/ SimFallback
    \/ MainCheckSimulation

MainSpec == MainInit /\ [][MainNext]_vars

----------------------------------------------------------------------------
(* Properties *)

(* the rows of df dated at or after start_date, counted on the input *)
RowsFrom(d, sd) == {j \in 1 .. Len(d) : d[j].date >= sd}

TopUpEvents(h) == {j \in 1 .. Len(h) : h[j].action = "TOP-UP"}

Returned == sim.pc = "done"

(* C1: with at least 20 rows at or after start_date the call returns a
   result, never None; its history is non-empty and begins with the BUY
   event dated on the first series date at or after start_date. *)
C1_ResultStartsWithInitialBuy ==
    (Returned /\ Cardinality(RowsFrom(df, start_date)) >= 20) =>
        /\ sim.ret = "result"
        /\ Len(sim.history) >= 1
        /\ sim.history[1].action = "BUY"
        /\ \E j \in RowsFrom(df, start_date) :
              /\ sim.history[1].date = df[j].date
              /\ \A q \in RowsFrom(df, start_date) : df[j].date <= df[q].date

C1_Witness ==
    /\ Returned
    /\ sim.ret = "result"
    /\ start_date > df[1].date
    /\ Len(sim.history) > 1
    /\ sim.history[1].date = start_date

(* C2: with fewer than 20 rows at or after start_date the call returns
   None and creates no trade event; with exactly 20 rows it returns a
   result. *)
C2_InsufficientDataBelowTwenty ==
    Returned =>
        /\ Cardinality(RowsFrom(df, start_date)) < 20 =>
              (sim.ret = "None" /\ sim.history = <<>>)
        /\ Cardinality(RowsFrom(df, start_date)) = 20 => sim.ret = "result"

C2_Witness ==
    /\ Returned
    /\ Cardinality(RowsFrom(df, start_date)) = 19
    /\ sim.ret = "None"

C2_WitnessTwenty ==
    /\ Returned
    /\ Cardinality(RowsFrom(df, start_date)) = 20
    /\ sim.ret = "result"

(* C3: the total_investment of the portfolio and of every trade event never
   exceeds TOTAL_CAPITAL. *)
C3_InvestmentWithinCapital ==
    /\ ~RLess(RInt(TOTAL_CAPITAL), sim.total_investment)
    /\ \A j \in 1 .. Len(sim.history) :
          ~RLess(RInt(TOTAL_CAPITAL), sim.history[j].total_investment)

(* all capital is invested, days remain, and the close of the day just
   processed is below the trigger level of the average cost *)
C3_Witness ==
    /\ sim.pc = "loop"
    /\ sim.i > 1
    /\ sim.i < Len(TradingDays(df, start_date))
    /\ sim.total_investment = RInt(TOTAL_CAPITAL)
    /\ RLess(RInt(TradingDays(df, start_date)[sim.i].close),
             RMul(sim.avg_cost, Rat(100 - drop_percentage, 100)))

(* C4: top_ups_left starts at NUM_TOP_UPS, never is negative, never grows,
   and falls by exactly 1 exactly on a day that appends a TOP-UP event; a
   history holds at most NUM_TOP_UPS TOP-UP events. *)
C4_CounterInRange ==
    sim.history # <<>> =>
        /\ sim.top_ups_left >= 0
        /\ sim.top_ups_left <= NUM_TOP_UPS
        /\ Cardinality(TopUpEvents(sim.history)) = NUM_TOP_UPS - sim.top_ups_left
        /\ Cardinality(TopUpEvents(sim.history)) <= NUM_TOP_UPS

C4_CounterStep ==
    /\ (sim.pc = "call" /\ sim'.pc = "loop") => sim'.top_ups_left = NUM_TOP_UPS
    /\ sim.pc = "loop" =>
          \/ /\ sim'.top_ups_left = sim.top_ups_left
             /\ Len(sim'.history) = Len(sim.history)
          \/ /\ sim'.top_ups_left = sim.top_ups_left - 1
             /\ Len(sim'.history) = Len(sim.history) + 1
             /\ sim'.history[Len(sim'.history)].action = "TOP-UP"
             /\ sim'.history[Len(sim'.history)].date =
                    TradingDays(df, start_date)[sim.i + 1].date

C4_TopUpsLeftCountsDown == []C4_CounterInRange /\ [][C4_CounterStep]_vars

C4_Witness ==
    /\ Returned
    /\ sim.top_ups_left = 0
    /\ Cardinality(TopUpEvents(sim.history)) = NUM_TOP_UPS

(* C5: in every trade event the stored avg_cost equals the stored
   total_investment divided by the stored total_shares. *)
C5_AverageCostIsInvestmentPerShare ==
    \A j \in 1 .. Len(sim.history) :
        sim.history[j].avg_cost =
            RDiv(sim.history[j].total_investment, sim.history[j].total_shares)

C5_Witness ==
    /\ Returned
    /\ Len(sim.history) = NUM_TOP_UPS + 1
    /\ sim.history[1].avg_cost # sim.history[2].avg_cost

(* C6: every processed day tests the exits in the order a, b, c: when the
   holding period and the target return are both reached the reason is the
   holding period; the target return is the reason only without (a); the
   exhausted capital at the end of the data only without (a) and (b); and
   a day that exits for no reason satisfies none of them. *)
C6_ExitPriority ==
    (sim.history # <<>> /\ (sim.i > 1 \/ Returned)) =>
        LET a == sim.holding_days >= MAX_HOLDING_YEARS * 365
            b == ~RLess(sim.annualized_return, Rat(10, 100))
            day == IF sim.exit_reason = "None" THEN sim.i - 1 ELSE sim.i
            lastday == day = Len(TradingDays(df, start_date)) - 1
            c == sim.top_ups_left = 0 /\ lastday
        IN  /\ a => sim.exit_reason = "max_holding"
            /\ sim.exit_reason = "max_holding" => a
            /\ sim.exit_reason = "target" <=> (~a /\ b)
            /\ sim.exit_reason = "exhausted" <=> (~a /\ ~b /\ c)
            /\ sim.exit_reason = "None" <=> (~a /\ ~b /\ ~c)

(* both the holding period and the target return are reached on the day
   of the exit *)
C6_Witness ==
    /\ Returned
    /\ sim.exit_reason = "max_holding"
    /\ sim.holding_days >= MAX_HOLDING_YEARS * 365
    /\ ~RLess(sim.annualized_return, Rat(10, 100))

C6_WitnessTarget == Returned /\ sim.exit_reason = "target"

C6_WitnessExhausted == Returned /\ sim.exit_reason = "exhausted"

C6_WitnessFallback == Returned /\ sim.ret = "result" /\ sim.exit_reason = "None"

(* the run of the scenario: the 25 closes from their first date, 5% *)
Scenario ==
    /\ df = ScenarioSeries
    /\ start_date = ScenarioSeries[1].date
    /\ drop_percentage = 5

(* C7 as stated: the scenario ends with exactly one TOP-UP event, on the
   first day whose close is at or below 95, with total_investment 100000
   and 2 top-ups left. *)
C7_ScenarioOneTopUp ==
    (Scenario /\ Returned) =>
        /\ Cardinality(TopUpEvents(sim.history)) = 1
        /\ \A j \in TopUpEvents(sim.history) : sim.history[j].price = RInt(95)
        /\ sim.total_investment = RInt(100000)
        /\ sim.top_ups_left = 2

(* C7, amended: the scenario tops up three times, on the days whose closes
   are 94, 92 and 90 (each the first close strictly below 95% of the average
   cost of that moment); after the first top-up total_investment is 100000
   and 2 top-ups are left; the run ends with total_investment 200000 and no
   top-up left. *)
C7_ScenarioThreeTopUps ==
    /\ (Scenario /\ Len(sim.history) >= 2) =>
          /\ sim.history[2].action = "TOP-UP"
          /\ sim.history[2].price = RInt(94)
          /\ sim.history[2].date = ScenarioSeries[1].date + 6
          /\ sim.history[2].total_investment = RInt(100000)
    /\ (Scenario /\ Len(sim.history) = 2) =>
          /\ sim.total_investment = RInt(100000)
          /\ sim.top_ups_left = 2
    /\ (Scenario /\ Returned) =>
          /\ Cardinality(TopUpEvents(sim.history)) = 3
          /\ sim.history[3].price = RInt(92)
          /\ sim.history[4].price = RInt(90)
          /\ sim.total_investment = RInt(200000)
          /\ sim.top_ups_left = 0

C7_Witness ==
    /\ Scenario
    /\ Returned
    /\ sim.ret = "result"
    /\ Len(sim.history) = 4

(* C8 as stated: the search over a series of fewer than 21 rows returns
   None. *)
C8_ShortSeriesReturnsNone ==
    (search.pc = "done" /\ Len(df) < 21) => search.out = "None"

(* C9: the returned threshold has the largest mean among the scored
   thresholds, and every scored threshold before it in the ascending grid
   has a strictly smaller mean. *)
C9_ReturnsFirstMaximalMean ==
    /\ \A q, r \in 1 .. Len(search.results) :
          q < r => search.results[q].drop_percentage
                       < search.results[r].drop_percentage
    /\ (search.pc = "done" /\ search.out = "threshold") =>
          \E r \in 1 .. Len(search.results) :
             /\ search.results[r].drop_percentage = search.optimal
             /\ \A q \in 1 .. Len(search.results) :
                   ~RLess(search.results[r].avg_annualized_return,
                          search.results[q].avg_annualized_return)
             /\ \A q \in 1 .. (r - 1) :
                   RLess(search.results[q].avg_annualized_return,
                         search.results[r].avg_annualized_return)

(* every threshold has the same mean and the smallest one is returned *)
C9_Witness ==
    /\ search.pc = "done"
    /\ search.out = "threshold"
    /\ Len(search.results) = Len(drop_percentages)
    /\ \A q \in 1 .. Len(search.results) :
          search.results[q].avg_annualized_return =
              search.results[1].avg_annualized_return
    /\ search.optimal = drop_percentages[1]

(* a later threshold has the strictly largest mean and is returned *)
C9_WitnessLater ==
    /\ search.pc = "done"
    /\ search.out = "threshold"
    /\ search.optimal > drop_percentages[1]

(* C10: every sampled start date gives a simulation that returns a result,
   so every sample of a threshold enters its mean and every threshold is
   scored. *)
C10_EverySampleSucceeds ==
    /\ search.run > 0 =>
          /\ search.simulation_result = "result"
          /\ Cardinality(RowsFrom(df, search.start_date)) >= 20
    /\ Len(search.annual_returns) = search.run
    /\ search.pc \in {"sample", "score"} => Len(search.results) = search.k - 1
    /\ search.pc = "score" => Len(search.annual_returns) = BacktestRuns

(* the last date of the pool was sampled: 21 rows at or after it *)
C10_Witness ==
    /\ search.pc = "score"
    /\ Cardinality(RowsFrom(df, search.start_date)) = 21
    /\ search.simulation_result = "result"

(* a step that processes one day of the loop, and the row of that day *)
DayIsProcessed ==
    sim.pc = "loop" /\ sim.i < Len(TradingDays(df, start_date))

Today == TradingDays(df, start_date)[sim.i + 1]

(* C12: a day of index >= 1 tops up exactly when top-ups are left and the
   close is strictly below avg_cost * (1 - drop) of the average cost before
   that day; a top-up adds (TOTAL_CAPITAL - INITIAL_INVESTMENT) / NUM_TOP_UPS
   to total_investment and that amount divided by the close to the shares,
   and appends one TOP-UP event dated that day; no day appends more than one
   event and the day of the initial buy appends only the BUY event. *)
C12_TopUpStep ==
    /\ (sim.pc = "call" /\ sim'.pc = "loop") =>
          /\ Len(sim'.history) = 1
          /\ sim'.history[1].action = "BUY"
          /\ sim'.i = 1
    /\ DayIsProcessed =>
          LET amount == Rat(TOTAL_CAPITAL - INITIAL_INVESTMENT, NUM_TOP_UPS)
              close  == RInt(Today.close)
              due    == /\ sim.top_ups_left > 0
                        /\ RLess(close, RMul(sim.avg_cost,
                                             Rat(100 - drop_percentage, 100)))
              last   == sim'.history[Len(sim'.history)]
          IN  /\ sim.i >= 1
              /\ due <=> Len(sim'.history) = Len(sim.history) + 1
              /\ ~due => /\ Len(sim'.history) = Len(sim.history)
                         /\ sim'.total_investment = sim.total_investment
                         /\ sim'.shares = sim.shares
              /\ due => /\ sim'.total_investment =
                               RAdd(sim.total_investment, amount)
                        /\ sim'.shares = RAdd(sim.shares, RDiv(amount, close))
                        /\ last.action = "TOP-UP"
                        /\ last.date = Today.date
                        /\ last.price = close
                        /\ last.shares_traded = RDiv(amount, close)
                        /\ last.total_investment = sim'.total_investment
                        /\ last.total_shares = sim'.shares

C12_TopUpIffDue == [][C12_TopUpStep]_vars

(* a day has topped up, and a later day left the portfolio alone although
   top-ups were left *)
C12_Witness ==
    /\ sim.pc = "loop"
    /\ sim.i > 2
    /\ Len(sim.history) = 2
    /\ sim.top_ups_left > 0
    /\ sim.history[2].date < TradingDays(df, start_date)[sim.i].date

(* some exit condition holds for the values of frame f on a day that is
   (or is not) the last of the trading days *)
SomeExitHolds(f, last) ==
    \/ f.holding_days >= MAX_HOLDING_YEARS * 365
    \/ ~RLess(f.annualized_return, Rat(10, 100))
    \/ (f.top_ups_left = 0 /\ last)

C13_ExitStep ==
    /\ (sim.pc = "call" /\ sim'.pc = "loop") =>
          (sim'.exit_reason = "None" /\ sim'.ret = "pending")
    /\ DayIsProcessed =>
          LET last == sim.i = Len(TradingDays(df, start_date)) - 1
          IN  /\ sim'.holding_days = Today.date - sim'.history[1].date + 1
              /\ SomeExitHolds(sim', last) <=> sim'.pc = "done"
              /\ sim'.pc = "done" =>
                    /\ sim'.ret = "result"
                    /\ sim'.end_date = Today.date
                    /\ sim'.exit_reason # "None"
              /\ sim'.pc # "done" =>
                    /\ sim'.pc = "loop"
                    /\ sim'.i = sim.i + 1
    /\ sim.pc # "done"

C13_NoEventAfterEnd ==
    /\ (Returned /\ sim.ret = "result") =>
          \A j \in 1 .. Len(sim.history) : sim.history[j].date <= sim.end_date
    /\ (sim.pc = "loop" /\ sim.i > 1) =>
          ~SomeExitHolds(sim, sim.i = Len(TradingDays(df, start_date)))

(* C13: the days are processed in ascending order from index 1; the first
   day on which an exit condition holds after its top-up and valuation
   returns with end_date on that day; no step follows the return, no event
   is dated after end_date, and the initial-buy day evaluates no exit. *)
C13_ExitOnEarliestDay == []C13_NoEventAfterEnd /\ [][C13_ExitStep]_vars

(* an exit on a day that is neither the first of the loop nor the last of
   the data, after a top-up *)
C13_Witness ==
    /\ Returned
    /\ sim.exit_reason # "None"
    /\ sim.i > 1
    /\ sim.i < Len(TradingDays(df, start_date)) - 1
    /\ Len(sim.history) > 1

(* C14: a run on which no exit condition fires still returns a result, with
   end_date on the last series date and the annualized return of the last
   day; on every return path holding_days is the number of days from the
   first trade date to end_date, both included. *)
C14_FallbackResult ==
    (Returned /\ sim.ret = "result") =>
        /\ sim.holding_days = sim.end_date - sim.history[1].date + 1
        /\ sim.exit_reason = "None" =>
              /\ sim.end_date = df[Len(df)].date
              /\ sim.annualized_return =
                    RMul(RDiv(RSub(RMul(sim.shares, RInt(df[Len(df)].close)),
                                   sim.total_investment),
                              sim.total_investment),
                         Rat(365, sim.end_date - sim.history[1].date + 1))

(* the data ran out with top-ups left, after one top-up *)
C14_Witness ==
    /\ Returned
    /\ sim.ret = "result"
    /\ sim.exit_reason = "None"
    /\ Len(sim.history) > 1
    /\ sim.holding_days > 1

C15_UpdateStep ==
    /\ DayIsProcessed =>
          LET n    == Len(sim.history)
              m    == Len(sim'.history)
              last == sim'.history[m]
          IN  /\ \A j \in 1 .. (m - 1) : sim'.history[j] = sim.history[j]
              /\ sim'.cumulative_return =
                    RDiv(RSub(RMul(sim'.shares, RInt(Today.close)),
                              sim'.total_investment),
                         sim'.total_investment)
              /\ last.cumulative_return = sim'.cumulative_return
              /\ last.annualized_return = sim'.annualized_return
              /\ m = n =>
                    last = [sim.history[n] EXCEPT
                               !.cumulative_return = sim'.cumulative_return,
                               !.annualized_return = sim'.annualized_return]
              /\ m # n =>
                    /\ sim'.history[n].cumulative_return = sim.cumulative_return
                    /\ sim'.history[n].annualized_return = sim.annualized_return
    /\ (sim.pc = "loop" /\ ~DayIsProcessed) => sim'.history = sim.history

C15_LastEventIsCurrent ==
    sim.history # <<>> =>
        /\ sim.history[Len(sim.history)].cumulative_return = sim.cumulative_return
        /\ sim.history[Len(sim.history)].annualized_return = sim.annualized_return

(* C15: a day step writes that day's returns into the last history record
   only; every earlier record is left as it was, so a record that is no
   longer the last keeps the returns of the last day processed before its
   successor was appended, and the last record of a result carries
   final_annualized_return. *)
C15_OnlyLastEventUpdated == []C15_LastEventIsCurrent /\ [][C15_UpdateStep]_vars

(* a result of three records or more whose BUY record was updated before
   the first top-up and differs from the last record *)
C15_Witness ==
    /\ Returned
    /\ Len(sim.history) >= 3
    /\ sim.history[1].annualized_return # RInt(0)
    /\ sim.history[1].annualized_return # sim.history[2].annualized_return
    /\ sim.history[2].annualized_return # sim.annualized_return

Pipeline ==
    <<"load_data", "find_optimal_drop_percentage",
      "run_backtest_simulation", "plot_simulation_results">>

Plotted ==
    \E j \in 1 .. Len(main.stages) : main.stages[j] = "plot_simulation_results"

(* C11: the stages run in the order load, search, simulation, plot; the
   plot is invoked only after a non-empty series was loaded, the search
   returned a threshold and the display simulation returned a result; a
   failed or empty load, a search that returns None and a simulation that
   returns None each end the run with no later stage and no chart. *)
C11_PlotOnlyAfterSuccess ==
    /\ Len(main.stages) <= Len(Pipeline)
    /\ main.stages = SubSeq(Pipeline, 1, Len(main.stages))
    /\ Plotted =>
          /\ main.etf_data = "frame"
          /\ df # <<>>
          /\ main.search_out = "threshold"
          /\ sim.pc = "done"
          /\ sim.ret = "result"
    /\ main.pc = "end" =>
          /\ (main.etf_data = "None" \/ df = <<>>) => Len(main.stages) = 1
          /\ main.search_out \in {"None", "IndexError"} => Len(main.stages) = 2
          /\ (main.search_out = "threshold" /\ sim.ret = "None") =>
                Len(main.stages) = 3
          /\ main.outcome = "plotted" <=> Plotted

C11_Witness == main.pc = "end" /\ Plotted /\ Len(sim.history) > 1

C11_WitnessNoSimulation ==
    main.pc = "end" /\ main.search_out = "threshold" /\ sim.ret = "None"

C11_WitnessEmpty == main.pc = "end" /\ main.etf_data = "frame" /\ df = <<>>

C11_WitnessMissing == main.pc = "end" /\ main.etf_data = "None"

C11_WitnessRaised == main.pc = "end" /\ main.search_out = "IndexError"

====
